---- MODULE Spec2Model ----
(***************************************************************************)
(* Model of prisma/seed.ts (the dataset assembler of the gym billing       *)
(* system) and of the SociosDelPlan page that classifies members' debt.    *)
(*                                                                         *)
(* Time is counted in ticks, TicksPerDay to a day, from 00:00 of 1 January *)
(* of EpochYear.  A JavaScript Date is its tick; the local time zone is    *)
(* taken to be UTC.  null and undefined are both the value Null.           *)
(***************************************************************************)
EXTENDS Integers, Sequences, FiniteSets

VARIABLES
    now,          \* the clock: what new Date() returns
    limite,       \* the clock value at which the behaviours of the model end
    plans,        \* table Plan: sequence of rows, id = position
    rutinas,      \* table Rutina: sequence of rows, id = position
    socios,       \* table Socio: sequence of rows, id = position
    pagos,        \* table Pago, by socioId: pagos[s] = the rows of socio s in creation order
    asistencias,  \* table Asistencia, by socioId, in creation order
    usuarios,     \* table Usuario: the set of emails
    pc,           \* pc[r]: where run r of main() stands
    loc,          \* loc[r]: the local constants of run r of main()
    paidCounter,  \* paidCounter[r]: the module-level counter of the process of run r
    lastPago,     \* history: the crearPago calls made one by one, [socioId, leido1, leido2]
    lastFecha,    \* history: the getFechaReal calls made one by one
    lastAsist,    \* history: the asistenciasConRutina calls made one by one
    filas,        \* the page SociosDelPlan rendered from the tables as they are,
                  \* [planId, rows]; none once a member or payment is written
    solapadas     \* history: two runs of main() have been under way at once

vars == <<now, limite, plans, rutinas, socios, pagos, asistencias, usuarios,
          pc, loc, paidCounter, lastPago, lastFecha, lastAsist, filas, solapadas>>

----------------------------------------------------------------------------
(* Bounds of the model *)

TicksPerDay == 2       \* resolution of the clock
MaxElapsed == 4        \* ticks the clock may advance in a behaviour of one operation
MaxSeedTicks == 1      \* ticks the clock may advance in a behaviour of main()
MaxAdvance == 2        \* ticks the clock may advance between the two reads of crearPago
MaxPagos == 2          \* crearPago calls of the payment harness
MaxCalls == 6          \* getFechaReal calls of the jitter harness
MaxDias == 8           \* largest dias of the attendance harness
MaxAsistCalls == 1     \* asistenciasConRutina calls of the attendance harness
MaxRuns == 2           \* runs of main()

----------------------------------------------------------------------------
(* JavaScript Date, as far as seed.ts uses it *)

Null == -1
EpochYear == 2023
Years == EpochYear..(EpochYear + 4)
NoonTick == TicksPerDay \div 2

InLeapYear(y) == (y % 4 = 0 /\ y % 100 # 0) \/ y % 400 = 0

DaysInYear(y) == IF InLeapYear(y) THEN 366 ELSE 365

DaysInMonth(y, m) ==
    IF m = 2 THEN (IF InLeapYear(y) THEN 29 ELSE 28)
    ELSE IF m \in {4, 6, 9, 11} THEN 30 ELSE 31

RECURSIVE DayFromYear(_)
DayFromYear(y) == IF y <= EpochYear THEN 0 ELSE DayFromYear(y - 1) + DaysInYear(y - 1)

RECURSIVE DaysBeforeMonth(_, _)
DaysBeforeMonth(y, m) ==
    IF m <= 1 THEN 0 ELSE DaysBeforeMonth(y, m - 1) + DaysInMonth(y, m - 1)

\* MakeDay(year, month, date): the day number; date may be any integer
MakeDay(y, m, date) == DayFromYear(y) + DaysBeforeMonth(y, m) + date - 1

Day(t) == t \div TicksPerDay
TimeWithinDay(t) == t % TicksPerDay
MakeDate(day, time) == day * TicksPerDay + time

YearFromDay(day) ==
    CHOOSE y \in Years : DayFromYear(y) <= day /\ day < DayFromYear(y + 1)

MonthFromDay(day) ==
    LET y == YearFromDay(day)
    IN  CHOOSE m \in 1..12 :
            /\ MakeDay(y, m, 1) <= day
            /\ day < MakeDay(y, m, 1) + DaysInMonth(y, m)

\* The calendar of the years of the model: the year and month of each day
Calendar ==
    [day \in 0..(DayFromYear(EpochYear + 5) - 1) |->
        [year |-> YearFromDay(day), month |-> MonthFromDay(day)]]

YearFromTime(t) == Calendar[Day(t)].year

MonthFromTime(t) == Calendar[Day(t)].month

\* Date.prototype.getDate
getDate(t) == Day(t) - MakeDay(YearFromTime(t), MonthFromTime(t), 1) + 1

\* Date.prototype.setDate: the date of the same month, the time of day kept
setDate(t, date) ==
    MakeDate(MakeDay(YearFromTime(t), MonthFromTime(t), date), TimeWithinDay(t))

\* d(y, m, day): 12:00 UTC of that day
d(y, m, day) == MakeDate(MakeDay(y, m, day), NoonTick)

----------------------------------------------------------------------------
(* getFechaReal, lines 10-25: the counter after the call and the date returned *)

getFechaRealOddEven(counter, fechaEsperada) ==
    LET c == counter + 1
    IN  [counter |-> c,
         fecha   |-> IF c % 2 = 0
                     THEN fechaEsperada
                     ELSE setDate(fechaEsperada, getDate(fechaEsperada) - ((c % 3) + 1))]

getFechaReal(counter, fechaEsperada) ==
    LET c == counter + 1
    IN  [counter |-> c,
         fecha   |-> IF c % 2 = 1
                     THEN fechaEsperada
                     ELSE setDate(fechaEsperada, getDate(fechaEsperada) - ((c % 3) + 1))]

----------------------------------------------------------------------------
(* crearPago, lines 37-67 *)

fechaPagoValidaDeAny(fechaReal, ahora) == fechaReal

\* lines 46-47; ahora is the clock as line 47 reads it
fechaPagoValidaDe(fechaReal, ahora) ==
    IF fechaReal # Null /\ fechaReal <= ahora THEN fechaReal ELSE Null

estadoDeStrict(fechaPagoValida, fechaEsperada, ahora) ==
    IF fechaPagoValida = Null
    THEN (IF ahora > fechaEsperada THEN "vencido" ELSE "pendiente")
    ELSE (IF fechaPagoValida >= fechaEsperada THEN "vencido" ELSE "pagado")

\* lines 49-55; ahora is the clock as line 51 reads it
estadoDe(fechaPagoValida, fechaEsperada, ahora) ==
    IF fechaPagoValida = Null
    THEN (IF ahora > fechaEsperada THEN "vencido" ELSE "pendiente")
    ELSE (IF fechaPagoValida > fechaEsperada THEN "vencido" ELSE "pagado")

\* The row prisma.pago.create stores (lines 57-66), the clock reading t1 at
\* line 47 and t2 at line 51.  argFechaReal is history, not a column: the
\* fechaReal the call was given.
crearPago(params, t1, t2) ==
    LET valida == fechaPagoValidaDe(params.fechaReal, t1)
    IN  [fechaEsperada |-> params.fechaEsperada,
         fechaReal     |-> valida,
         monto         |-> params.monto,
         metodo        |-> params.metodo,
         estado        |-> estadoDe(valida, params.fechaEsperada, t2),
         argFechaReal  |-> params.fechaReal]

----------------------------------------------------------------------------
(* asistenciasConRutina, lines 69-82 *)

RECURSIVE asistenciasDesde(_, _, _, _, _)
asistenciasDesde(socioId, rutinaId, dias, hoy, i) ==
    IF i >= dias THEN <<>>
    ELSE <<[socioId |-> socioId, rutinaId |-> rutinaId,
            fecha |-> setDate(hoy, getDate(hoy) - i)]>>
         \o asistenciasDesde(socioId, rutinaId, dias, hoy, i + 1)

asistenciasConRutinaClamped(socioId, rutinaId, dias, hoy) ==
    [i \in 1..dias |->
        [socioId |-> socioId, rutinaId |-> rutinaId,
         fecha |-> setDate(hoy, IF getDate(hoy) - (i - 1) < 1 THEN 1
                                ELSE getDate(hoy) - (i - 1))]]

\* The rows the loop creates, in order; hoy is the clock as line 70 reads it
asistenciasConRutina(socioId, rutinaId, dias, hoy) ==
    asistenciasDesde(socioId, rutinaId, dias, hoy, 0)

----------------------------------------------------------------------------
(* SociosDelPlan, lines 318-354 *)

UmbralAlto == 3 * 20000

\* line 339 and line 342
Umbral == 20000

RECURSIVE sumaVencidos(_)
\* lines 333-335: filter by estado, then reduce
sumaVencidos(ps) ==
    IF ps = <<>> THEN 0
    ELSE (IF Head(ps).estado = "vencido" THEN Head(ps).monto ELSE 0)
         + sumaVencidos(Tail(ps))

tipoDeDeudaStrict(deudaTotal) ==
    IF deudaTotal > 0 /\ deudaTotal < Umbral THEN "Deuda leve"
    ELSE IF deudaTotal >= Umbral THEN "Deuda grave"
    ELSE "Al dia"

\* lines 337-345
tipoDeDeuda(deudaTotal) ==
    IF deudaTotal > 0 /\ deudaTotal <= Umbral THEN "Deuda leve"
    ELSE IF deudaTotal > Umbral THEN "Deuda grave"
    ELSE "Al dia"

colorDe(tipo) ==
    IF tipo = "Deuda leve" THEN "bg-yellow-300"
    ELSE IF tipo = "Deuda grave" THEN "bg-red-500 text-white"
    ELSE "bg-green-400"

\* lines 332-354: the row of socio s, whose payments are ps
filaDe(s, ps) ==
    LET deudaTotal == sumaVencidos(ps)
    IN  [id |-> s.id, nombre |-> s.nombre, tipo |-> tipoDeDeuda(deudaTotal),
         deudaTotal |-> deudaTotal, color |-> colorDe(tipoDeDeuda(deudaTotal))]

\* lines 326-331: the members of plan planId, here in id order (the page
\* orders them by apellido, which the model does not hold)
sociosDelPlan(ss, planId) ==
    SelectSeq([i \in 1..Len(ss) |-> i], LAMBDA i : ss[i].planId = planId)

\* lines 326-354: the rows of the members of plan planId
filasDelPlan(ss, pp, planId) ==
    LET ids == sociosDelPlan(ss, planId)
    IN  [j \in 1..Len(ids) |-> filaDe(ss[ids[j]], pp[ids[j]])]

----------------------------------------------------------------------------
(* The data main() writes, lines 87-211 *)

\* lines 87-89: the arguments of the three findOrCreatePlan calls
PlanArgs ==
    << [tipo |-> "Mensual",    costo |-> 20000],
       [tipo |-> "Trimestral", costo |-> 52000],
       [tipo |-> "Anual",      costo |-> 220000] >>

\* lines 91-105: rFuerza, rVolumen, rCardio, rMixta, rHipertrofia
RutinaData ==
    << "Fuerza Total", "Volumen Maximo", "Cardio Intenso", "Funcional Mixto",
       "Hipertrofia Pro" >>

S(nombre, estado, plan, rutina) ==
    [nombre |-> nombre, estado |-> estado, plan |-> plan, rutina |-> rutina]

\* lines 107-147; plan indexes PlanArgs and rutina indexes RutinaData
SociosData ==
    << S("Juan", "inactivo", 1, 1),    S("Teo", "activo", 1, 3),
       S("Maria", "activo", 3, 2),     S("Lucas", "activo", 1, 3),
       S("Laura", "activo", 2, 2),     S("Martin", "activo", 1, 1),
       S("Sofia", "activo", 2, 3),     S("Diego", "activo", 3, 1),
       S("Valentina", "activo", 1, 2), S("Carlos", "activo", 1, 1),
       S("Ana", "activo", 1, 4),       S("Bruno", "activo", 2, 5),
       S("Pedro", "activo", 1, 4) >>

\* lines 195-211
ExtraSociosData ==
    << S("Nicolas", "activo", 1, 3),   S("Camila", "activo", 1, 4),
       S("Tomas", "activo", 1, 1),     S("Micaela", "inactivo", 1, 3),
       S("Rocio", "activo", 1, 4),     S("Ezequiel", "activo", 1, 1),
       S("Franco", "activo", 2, 3),    S("Carolina", "activo", 2, 2),
       S("Julian", "activo", 2, 1),    S("Paula", "activo", 2, 5),
       S("Lucia", "activo", 3, 2),     S("Agustina", "activo", 3, 4),
       S("Leandro", "inactivo", 3, 3) >>

\* One crearPago call of main(): jitter is the argument of the getFechaReal
\* call that gives fechaReal, Null where fechaReal is omitted or null.
P(socio, fechaEsperada, jitter, monto, metodo) ==
    [socio |-> socio, fechaEsperada |-> fechaEsperada, jitter |-> jitter,
     monto |-> monto, metodo |-> metodo]

\* lines 151-187; socio indexes SociosData
PagosData ==
    << P(1, d(2024, 7, 1), Null, 20000, Null),
       P(1, d(2024, 8, 1), Null, 20000, Null),
       P(1, d(2024, 9, 1), Null, 20000, Null),
       P(2, d(2024, 7, 27), Null, 20000, Null),
       P(2, d(2024, 8, 27), Null, 20000, Null),
       P(3, d(2024, 1, 10), d(2024, 1, 10), 220000, "transferencia"),
       P(3, d(2025, 1, 10), Null, 220000, Null),
       P(4, d(2024, 7, 1), d(2024, 7, 2), 20000, "efectivo"),
       P(4, d(2024, 8, 1), Null, 20000, Null),
       P(5, d(2024, 6, 10), d(2024, 6, 10), 52000, "efectivo"),
       P(5, d(2024, 9, 10), Null, 52000, Null),
       P(6, d(2024, 7, 1), d(2024, 7, 1), 20000, "tarjeta"),
       P(6, d(2024, 8, 1), d(2024, 8, 1), 20000, "debito"),
       P(6, d(2024, 9, 1), d(2024, 9, 1), 20000, "efectivo"),
       P(7, d(2024, 5, 5), d(2024, 5, 5), 52000, "transferencia"),
       P(8, d(2024, 2, 15), d(2024, 2, 15), 220000, "tarjeta"),
       P(9, d(2024, 7, 1), d(2024, 7, 1), 20000, "efectivo"),
       P(9, d(2024, 8, 1), Null, 20000, Null),
       P(10, d(2024, 6, 1), Null, 20000, Null),
       P(10, d(2024, 7, 1), Null, 20000, Null),
       P(10, d(2024, 8, 1), Null, 20000, Null),
       P(11, d(2024, 7, 15), Null, 20000, Null),
       P(12, d(2025, 6, 11), d(2025, 6, 11), 52000, "efectivo"),
       P(13, d(2024, 8, 1), d(2024, 8, 1), 20000, "transferencia"),
       P(13, d(2024, 9, 1), d(2024, 9, 1), 20000, "tarjeta") >>

\* lines 223-226: e1, e2, e3, e4 of a monthly member
FechasMensual == <<d(2025, 7, 1), d(2025, 8, 1), d(2025, 9, 1), d(2025, 10, 1)>>

\* lines 246-249: e1, e2, e3, e4 of a quarterly member
FechasTrimestral == <<d(2025, 3, 10), d(2025, 6, 10), d(2025, 9, 10), d(2025, 12, 10)>>

\* lines 270-272: e1, e2, e3 of an annual member
FechasAnual == <<d(2024, 2, 15), d(2025, 2, 15), d(2026, 2, 15)>>

\* line 218: the amount of an extra member's installments
montoDe(isAnual, isTrimestral) ==
    IF isAnual THEN 220000 ELSE IF isTrimestral THEN 52000 ELSE 20000

\* lines 222-287: the crearPago calls of the loop body for the extra member
\* with this id and plan, in order
pagosDeExtra(id, planId, mensualId, trimestralId, anualId) ==
    LET isMensual    == planId = mensualId
        isTrimestral == planId = trimestralId
        isAnual      == planId = anualId
        monto  == montoDe(isAnual, isTrimestral)
        bucket == id % 8
        J(e, metodo) == P(id, e, e, monto, metodo)
        N(e) == P(id, e, Null, monto, Null)
        m1 == FechasMensual[1]
        m2 == FechasMensual[2]
        m3 == FechasMensual[3]
        m4 == FechasMensual[4]
        t1 == FechasTrimestral[1]
        t2 == FechasTrimestral[2]
        t3 == FechasTrimestral[3]
        t4 == FechasTrimestral[4]
        a1 == FechasAnual[1]
        a2 == FechasAnual[2]
        a3 == FechasAnual[3]
    IN  (IF ~isMensual THEN <<>>
         ELSE IF bucket <= 4
              THEN <<J(m1, "tarjeta"), J(m2, "efectivo"), J(m3, "transferencia"), N(m4)>>
         ELSE IF bucket <= 6
              THEN <<J(m1, "debito"), J(m2, "efectivo"), N(m3), N(m4)>>
         ELSE <<J(m1, "tarjeta"), N(m2), N(m3), N(m4)>>)
        \o
        (IF ~isTrimestral THEN <<>>
         ELSE IF bucket <= 4
              THEN <<J(t1, "transferencia"), J(t2, "tarjeta"), J(t3, "efectivo"), N(t4)>>
         ELSE IF bucket <= 6
              THEN <<J(t1, "efectivo"), J(t2, "debito"), N(t3), N(t4)>>
         ELSE <<J(t1, "tarjeta"), N(t2), N(t3), N(t4)>>)
        \o
        (IF ~isAnual THEN <<>>
         ELSE IF bucket <= 4
              THEN <<J(a1, "tarjeta"), J(a2, "transferencia"), N(a3)>>
         ELSE IF bucket <= 6
              THEN <<J(a1, "efectivo"), N(a2), N(a3)>>
         ELSE <<J(a1, "debito"), N(a2), N(a3)>>)

----------------------------------------------------------------------------
(* The storage operations of main() *)

Runs == 1..MaxRuns

planHalladoNever(ps, tipo) == Null

\* line 28, prisma.plan.findFirst: the id of the first Plan of this tipo, or Null
planHallado(ps, tipo) ==
    IF \E i \in 1..Len(ps) : ps[i].tipo = tipo
    THEN CHOOSE i \in 1..Len(ps) :
             /\ ps[i].tipo = tipo
             /\ \A j \in 1..(i - 1) : ps[j].tipo # tipo
    ELSE Null

\* lines 30-32, prisma.plan.create
createPlan(ps, args) ==
    Append(ps, [id |-> Len(ps) + 1, tipo |-> args.tipo, costo |-> args.costo,
                estado |-> "activo"])

\* lines 91-105: the five prisma.rutina.create calls
createRutinas(rs) ==
    rs \o [i \in 1..Len(RutinaData) |-> [id |-> Len(rs) + i, nombre |-> RutinaData[i]]]

\* lines 107-147 and 195-211: one transaction of prisma.socio.create calls
createSocios(ss, data, planIds, rutinaIds) ==
    ss \o [i \in 1..Len(data) |->
              [id |-> Len(ss) + i, nombre |-> data[i].nombre, estado |-> data[i].estado,
               planId |-> planIds[data[i].plan], rutinaId |-> rutinaIds[data[i].rutina]]]

\* the ids of the rows a createSocios call returns
idsCreados(ss, data) == [i \in 1..Len(data) |-> Len(ss) + i]

sinFilas(n) == [i \in 1..n |-> <<>>]

\* The getFechaReal calls made by calls[1..j]: line 14 counts each of them
jitterHasta(calls, j) == Cardinality({k \in 1..j : calls[k].jitter # Null})

\* The crearPago calls of calls in order, each getFechaReal call made while
\* its argument list is evaluated: the call reads the counter as the calls
\* before it left it; st = [pagos, counter]; t is the clock
aplicarPagos(calls, st, t) ==
    LET row(j) ==
            LET c  == calls[j]
                g  == getFechaReal(st.counter + jitterHasta(calls, j - 1), c.jitter)
                fr == IF c.jitter = Null THEN Null ELSE g.fecha
            IN  crearPago([fechaEsperada |-> c.fechaEsperada, fechaReal |-> fr,
                           monto |-> c.monto, metodo |-> c.metodo], t, t)
        de(s) == SelectSeq([j \in 1..Len(calls) |-> j], LAMBDA j : calls[j].socio = s)
        rowsDe(s) == LET js == de(s) IN [k \in 1..Len(js) |-> row(js[k])]
    IN  [pagos   |-> [s \in 1..Len(st.pagos) |-> st.pagos[s] \o rowsDe(s)],
         counter |-> st.counter + jitterHasta(calls, Len(calls))]

\* lines 151-187 with the ids of the members created
pagosDeSocios(socioIds) ==
    [i \in 1..Len(PagosData) |->
        [PagosData[i] EXCEPT !.socio = socioIds[PagosData[i].socio]]]

RECURSIVE pagosDeExtras(_, _, _, _)
\* lines 213-288: the calls of the loop from the i-th extra member on
pagosDeExtras(ss, ids, planIds, i) ==
    IF i > Len(ids) THEN <<>>
    ELSE pagosDeExtra(ss[ids[i]].id, ss[ids[i]].planId, planIds[1], planIds[2], planIds[3])
         \o pagosDeExtras(ss, ids, planIds, i + 1)

eligibleAny(s) == s.rutinaId # Null /\ s.rutinaId # 0

\* lines 190 and 291: the member gets attendances
eligible(s) == s.estado = "activo" /\ s.rutinaId # Null /\ s.rutinaId # 0

\* line 191: dias of a member of the first batch
diasDeSocio(s) == 7

\* line 292: dias of an extra member
diasDeExtra(s) == 7 + (s.id % 6)

\* lines 189-193 (extra = FALSE) and 290-294 (extra = TRUE): the loop over the
\* members ids, each of them once
aplicarAsistencias(ss, ids, as, extra, t) ==
    [s \in 1..Len(as) |->
        IF (\E i \in 1..Len(ids) : ids[i] = s) /\ eligible(ss[s])
        THEN as[s] \o asistenciasConRutina(ss[s].id, ss[s].rutinaId,
                          IF extra THEN diasDeExtra(ss[s]) ELSE diasDeSocio(ss[s]), t)
        ELSE as[s]]

----------------------------------------------------------------------------
(* Initial states *)

locInicial == [k |-> 1, found |-> Null, planIds |-> <<0, 0, 0>>,
               rutinaIds |-> <<>>, socioIds |-> <<>>, extraIds |-> <<>>]

\* An empty database and no run of main() started
InitVacio ==
    /\ plans = <<>>
    /\ rutinas = <<>>
    /\ socios = <<>>
    /\ pagos = <<>>
    /\ asistencias = <<>>
    /\ usuarios = {}
    /\ pc = [r \in Runs |-> "idle"]
    /\ loc = [r \in Runs |-> locInicial]
    /\ paidCounter = [r \in Runs |-> 0]
    /\ lastPago = <<>>
    /\ lastFecha = <<>>
    /\ lastAsist = <<>>
    /\ filas = <<>>
    /\ solapadas = FALSE

\* Run 1 of main() on an empty database, stopped after line 149: the plans,
\* the routines and the first batch of members exist
InitReferencia ==
    /\ plans = createPlan(createPlan(createPlan(<<>>, PlanArgs[1]), PlanArgs[2]), PlanArgs[3])
    /\ rutinas = createRutinas(<<>>)
    /\ socios = createSocios(<<>>, SociosData, <<1, 2, 3>>, [i \in 1..Len(RutinaData) |-> i])
    /\ pagos = sinFilas(Len(SociosData))
    /\ asistencias = sinFilas(Len(SociosData))
    /\ usuarios = {}
    /\ pc = [r \in Runs |-> IF r = 1 THEN "pagos" ELSE "idle"]
    /\ loc = [r \in Runs |->
                IF r = 1
                THEN [k |-> 4, found |-> Null, planIds |-> <<1, 2, 3>>,
                      rutinaIds |-> [i \in 1..Len(RutinaData) |-> i],
                      socioIds |-> [i \in 1..Len(SociosData) |-> i],
                      extraIds |-> <<>>]
                ELSE locInicial]
    /\ paidCounter = [r \in Runs |-> 0]
    /\ lastPago = <<>>
    /\ lastFecha = <<>>
    /\ lastAsist = <<>>
    /\ filas = <<>>
    /\ solapadas = FALSE

----------------------------------------------------------------------------
(* The clock *)

Tick ==
    /\ now < limite
    /\ now' = now + 1
    /\ UNCHANGED <<limite, plans, rutinas, socios, pagos, asistencias, usuarios,
                   pc, loc, paidCounter, lastPago, lastFecha, lastAsist, filas, solapadas>>

----------------------------------------------------------------------------
(* The operations, each called with arguments drawn from small sets *)

HarnessE == d(2024, 7, 1)
HarnessSocios == {1, 5}
HarnessEsperadas == {HarnessE}
HarnessReales == {Null, HarnessE - 1, HarnessE, HarnessE + 1}
HarnessMontos == {1, 20000}
HarnessStart == HarnessE - 2

RECURSIVE totalFilas(_)
totalFilas(t) == IF t = <<>> THEN 0 ELSE Len(Head(t)) + totalFilas(Tail(t))

\* One crearPago call; the clock advances adv ticks between line 47 and line 51
CrearPago ==
    \E s \in HarnessSocios, e \in HarnessEsperadas, a \in HarnessReales,
       m \in HarnessMontos, adv \in 0..MaxAdvance :
        /\ totalFilas(pagos) < MaxPagos
        /\ now + adv <= limite
        /\ pagos' = [pagos EXCEPT ![s] =
                        Append(@, crearPago([fechaEsperada |-> e, fechaReal |-> a,
                                             monto |-> m, metodo |-> Null],
                                            now, now + adv))]
        /\ lastPago' = <<[socioId |-> s, leido1 |-> now, leido2 |-> now + adv]>>
        /\ now' = now + adv
        /\ filas' = <<>>
        /\ UNCHANGED <<limite, plans, rutinas, socios, asistencias, usuarios,
                       pc, loc, paidCounter, lastFecha, lastAsist, solapadas>>

\* One request of the page of plan planId
SociosDelPlan ==
    \E planId \in 1..Len(plans) :
        /\ filas' = <<[planId |-> planId, rows |-> filasDelPlan(socios, pagos, planId)]>>
        /\ UNCHANGED <<now, limite, plans, rutinas, socios, pagos, asistencias,
                       usuarios, pc, loc, paidCounter, lastPago, lastFecha, lastAsist, solapadas>>

JitterFechas == {d(2024, 7, 1), d(2024, 3, 2), d(2025, 1, 1)}

\* One getFechaReal call of the process of run 1; lastFecha logs every call
GetFechaReal ==
    \E f \in JitterFechas :
        LET g == getFechaReal(paidCounter[1], f)
        IN  /\ paidCounter[1] < MaxCalls
            /\ paidCounter' = [paidCounter EXCEPT ![1] = g.counter]
            /\ lastFecha' = Append(lastFecha,
                                   [arg |-> f, res |-> g.fecha, antes |-> paidCounter[1],
                                    counter |-> g.counter])
            /\ UNCHANGED <<now, limite, plans, rutinas, socios, pagos, asistencias,
                           usuarios, pc, loc, lastPago, lastAsist, filas, solapadas>>

AsistSocios == {2, 5}
AsistStarts == {d(2025, 1, 10), d(2025, 1, 3) + 1, d(2024, 3, 2) - 1, d(2024, 7, 1)}

\* One asistenciasConRutina call; lastAsist logs every call
AsistenciasConRutina ==
    \E s \in AsistSocios, r \in {socios[q].rutinaId : q \in AsistSocios}, dias \in 0..MaxDias :
        /\ Len(lastAsist) < MaxAsistCalls
        /\ asistencias' = [asistencias EXCEPT ![s] = @ \o asistenciasConRutina(s, r, dias, now)]
        /\ lastAsist' = Append(lastAsist,
                               [socioId |-> s, rutinaId |-> r, dias |-> dias, hoy |-> now,
                                antes |-> Len(asistencias[s])])
        /\ UNCHANGED <<now, limite, plans, rutinas, socios, pagos, usuarios,
                       pc, loc, paidCounter, lastPago, lastFecha, filas, solapadas>>

InitPagos == now = HarnessStart /\ limite = now + MaxElapsed /\ InitReferencia
NextPagos == CrearPago \/ SociosDelPlan \/ Tick
SpecPagos == InitPagos /\ [][NextPagos]_vars

InitJitter == now = d(2024, 7, 1) /\ limite = now /\ InitReferencia
NextJitter == GetFechaReal
SpecJitter == InitJitter /\ [][NextJitter]_vars

InitAsistencias == now \in AsistStarts /\ limite = now + MaxElapsed /\ InitReferencia
NextAsistencias == AsistenciasConRutina \/ Tick
SpecAsistencias == InitAsistencias /\ [][NextAsistencias]_vars

----------------------------------------------------------------------------
(* main(), lines 84-304, one action for each stretch between the points
   where another run can act on the tables the stretch writes; within a
   stretch every call reads the same clock value *)

history == <<lastPago, lastFecha, lastAsist>>

enCurso(q) == pc[q] \notin {"idle", "done"}

\* A process starts main() while no other run is under way
StartRun(r) ==
    /\ pc[r] = "idle"
    /\ \A q \in Runs : q < r => pc[q] = "done"
    /\ pc' = [pc EXCEPT ![r] = "find"]
    /\ UNCHANGED <<now, limite, plans, rutinas, socios, pagos, asistencias, usuarios,
                   loc, paidCounter, history, filas, solapadas>>

\* A process starts main(), whatever the other runs are doing
StartRunConc(r) ==
    /\ pc[r] = "idle"
    /\ \A q \in Runs : q < r => pc[q] # "idle"
    /\ pc' = [pc EXCEPT ![r] = "find"]
    /\ solapadas' = (solapadas \/ \E q \in Runs : q # r /\ enCurso(q))
    /\ UNCHANGED <<now, limite, plans, rutinas, socios, pagos, asistencias, usuarios,
                   loc, paidCounter, history, filas>>

\* after the k-th findOrCreatePlan call returns
trasPlan(k) == IF k = Len(PlanArgs) THEN "rutinas" ELSE "find"

\* line 28 of the k-th findOrCreatePlan call (lines 87-89), and line 34 when
\* a Plan was found
FindPlan(r) ==
    /\ pc[r] = "find"
    /\ LET k == loc[r].k
           h == planHallado(plans, PlanArgs[k].tipo)
       IN  IF h # Null
           THEN /\ loc' = [loc EXCEPT ![r].planIds[k] = h, ![r].found = h, ![r].k = k + 1]
                /\ pc' = [pc EXCEPT ![r] = trasPlan(k)]
           ELSE /\ loc' = [loc EXCEPT ![r].found = Null]
                /\ pc' = [pc EXCEPT ![r] = "create"]
    /\ UNCHANGED <<now, limite, plans, rutinas, socios, pagos, asistencias, usuarios,
                   paidCounter, history, filas, solapadas>>

\* lines 30-34 of the k-th findOrCreatePlan call
CreatePlan(r) ==
    /\ pc[r] = "create"
    /\ LET k == loc[r].k
       IN  /\ plans' = createPlan(plans, PlanArgs[k])
           /\ loc' = [loc EXCEPT ![r].planIds[k] = Len(plans) + 1, ![r].k = k + 1]
           /\ pc' = [pc EXCEPT ![r] = trasPlan(k)]
    /\ UNCHANGED <<now, limite, rutinas, socios, pagos, asistencias, usuarios,
                   paidCounter, history, filas, solapadas>>

\* lines 91-105
CreateRutinas(r) ==
    /\ pc[r] = "rutinas"
    /\ rutinas' = createRutinas(rutinas)
    /\ loc' = [loc EXCEPT ![r].rutinaIds = [i \in 1..Len(RutinaData) |-> Len(rutinas) + i]]
    /\ pc' = [pc EXCEPT ![r] = "socios"]
    /\ UNCHANGED <<now, limite, plans, socios, pagos, asistencias, usuarios,
                   paidCounter, history, filas, solapadas>>

\* lines 107-149
CreateSocios(r) ==
    /\ pc[r] = "socios"
    /\ socios' = createSocios(socios, SociosData, loc[r].planIds, loc[r].rutinaIds)
    /\ pagos' = pagos \o sinFilas(Len(SociosData))
    /\ asistencias' = asistencias \o sinFilas(Len(SociosData))
    /\ loc' = [loc EXCEPT ![r].socioIds = idsCreados(socios, SociosData)]
    /\ pc' = [pc EXCEPT ![r] = "pagos"]
    /\ filas' = <<>>
    /\ UNCHANGED <<now, limite, plans, rutinas, usuarios,
                   paidCounter, history, solapadas>>

\* lines 151-187
CrearPagosSocios(r) ==
    /\ pc[r] = "pagos"
    /\ LET st == aplicarPagos(pagosDeSocios(loc[r].socioIds),
                              [pagos |-> pagos, counter |-> paidCounter[r]], now)
       IN  /\ pagos' = st.pagos
           /\ paidCounter' = [paidCounter EXCEPT ![r] = st.counter]
    /\ pc' = [pc EXCEPT ![r] = "asistencias"]
    /\ filas' = <<>>
    /\ UNCHANGED <<now, limite, plans, rutinas, socios, asistencias, usuarios,
                   loc, history, solapadas>>

\* lines 189-193
AsistenciasSocios(r) ==
    /\ pc[r] = "asistencias"
    /\ asistencias' = aplicarAsistencias(socios, loc[r].socioIds, asistencias, FALSE, now)
    /\ pc' = [pc EXCEPT ![r] = "extraSocios"]
    /\ UNCHANGED <<now, limite, plans, rutinas, socios, pagos, usuarios,
                   loc, paidCounter, history, filas, solapadas>>

\* lines 195-211
CreateExtraSocios(r) ==
    /\ pc[r] = "extraSocios"
    /\ socios' = createSocios(socios, ExtraSociosData, loc[r].planIds, loc[r].rutinaIds)
    /\ pagos' = pagos \o sinFilas(Len(ExtraSociosData))
    /\ asistencias' = asistencias \o sinFilas(Len(ExtraSociosData))
    /\ loc' = [loc EXCEPT ![r].extraIds = idsCreados(socios, ExtraSociosData)]
    /\ pc' = [pc EXCEPT ![r] = "extraPagos"]
    /\ filas' = <<>>
    /\ UNCHANGED <<now, limite, plans, rutinas, usuarios,
                   paidCounter, history, solapadas>>

\* lines 213-288
CrearPagosExtraSocios(r) ==
    /\ pc[r] = "extraPagos"
    /\ LET st == aplicarPagos(pagosDeExtras(socios, loc[r].extraIds, loc[r].planIds, 1),
                              [pagos |-> pagos, counter |-> paidCounter[r]], now)
       IN  /\ pagos' = st.pagos
           /\ paidCounter' = [paidCounter EXCEPT ![r] = st.counter]
    /\ pc' = [pc EXCEPT ![r] = "extraAsistencias"]
    /\ filas' = <<>>
    /\ UNCHANGED <<now, limite, plans, rutinas, socios, asistencias, usuarios,
                   loc, history, solapadas>>

\* lines 290-294
AsistenciasExtraSocios(r) ==
    /\ pc[r] = "extraAsistencias"
    /\ asistencias' = aplicarAsistencias(socios, loc[r].extraIds, asistencias, TRUE, now)
    /\ pc' = [pc EXCEPT ![r] = "usuario"]
    /\ UNCHANGED <<now, limite, plans, rutinas, socios, pagos, usuarios,
                   loc, paidCounter, history, filas, solapadas>>

\* lines 296-304
UpsertAdmin(r) ==
    /\ pc[r] = "usuario"
    /\ usuarios' = usuarios \cup {"admin@gimnasio.com"}
    /\ pc' = [pc EXCEPT ![r] = "done"]
    /\ UNCHANGED <<now, limite, plans, rutinas, socios, pagos, asistencias,
                   loc, paidCounter, history, filas, solapadas>>

Step(r) ==
    \/ FindPlan(r)
    \/ CreatePlan(r)
    \/ CreateRutinas(r)
    \/ CreateSocios(r)
    \/ CrearPagosSocios(r)
    \/ AsistenciasSocios(r)
    \/ CreateExtraSocios(r)
    \/ CrearPagosExtraSocios(r)
    \/ AsistenciasExtraSocios(r)
    \/ UpsertAdmin(r)

SeedStarts == {d(2024, 1, 9), d(2024, 8, 15), d(2025, 1, 1) - 1, d(2026, 11, 5)}

\* Runs of main() one after the other, the page requested at any time
InitSeed == now \in SeedStarts /\ limite = now + MaxSeedTicks /\ InitVacio
NextSeed == (\E r \in Runs : StartRun(r) \/ Step(r)) \/ SociosDelPlan \/ Tick
SpecSeed == InitSeed /\ [][NextSeed]_vars

\* Runs of main() that may overlap
InitConc == now = d(2025, 1, 1) /\ limite = now /\ InitVacio
NextConc == \E r \in Runs : StartRunConc(r) \/ Step(r)
SpecConc == InitConc /\ [][NextConc]_vars

----------------------------------------------------------------------------
(* The statements checked *)

Last(q) == q[Len(q)]

\* The specification's deriveStatus(expected, actual, now), section 4.1
deriveStatus(expected, actual, ahora) ==
    LET validActual == IF actual # Null /\ actual <= ahora THEN actual ELSE Null
    IN  CASE validActual = Null /\ ahora > expected        -> "vencido"
          [] validActual = Null /\ ahora <= expected       -> "pendiente"
          [] validActual # Null /\ validActual > expected  -> "vencido"
          [] validActual # Null /\ validActual <= expected -> "pagado"

\* C1: a payment created with no actual date, or with one not later than the
\* clock, is stored with the status of the deriveStatus table at the clock
\* value the call read (overdue or pending by now against expected with no
\* actual date; paid when actual <= expected, overdue when actual > expected),
\* and with the actual date it was given.
C1_EstadoSegunTabla ==
    \A i \in 1..Len(lastPago) :
        LET c   == lastPago[i]
            row == Last(pagos[c.socioId])
            a   == row.argFechaReal
        IN  /\ a = Null =>
                  /\ row.estado = deriveStatus(row.fechaEsperada, Null, c.leido2)
                  /\ row.estado = (IF c.leido2 > row.fechaEsperada THEN "vencido"
                                   ELSE "pendiente")
            /\ (a # Null /\ a <= c.leido1) =>
                  /\ row.estado = deriveStatus(row.fechaEsperada, a, c.leido1)
                  /\ row.estado = deriveStatus(row.fechaEsperada, a, c.leido2)
                  /\ row.estado = (IF a <= row.fechaEsperada THEN "pagado" ELSE "vencido")
                  /\ row.fechaReal = a

\* C1's case: an actual date equal to the expected date, not later than the
\* clock, stored as paid
C1_Witness ==
    \E i \in 1..Len(lastPago) :
        LET row == Last(pagos[lastPago[i].socioId])
        IN  /\ row.argFechaReal = row.fechaEsperada
            /\ row.argFechaReal <= lastPago[i].leido1
            /\ row.estado = "pagado"

\* C2: a payment created with an actual date later than the clock is stored
\* with a null actual date and with the status of the same payment with no
\* actual date, which is pending or overdue and never paid; the row exists.
C2_FuturoComoAusente ==
    \A i \in 1..Len(lastPago) :
        LET c   == lastPago[i]
            row == Last(pagos[c.socioId])
            a   == row.argFechaReal
        IN  (a # Null /\ a > c.leido1) =>
                /\ Len(pagos[c.socioId]) >= 1
                /\ row.fechaReal = Null
                /\ row.estado = deriveStatus(row.fechaEsperada, Null, c.leido2)
                /\ row.estado \in {"pendiente", "vencido"}

\* C2's case: an actual date in the future that is not after the expected date
C2_Witness ==
    \E i \in 1..Len(lastPago) :
        LET row == Last(pagos[lastPago[i].socioId])
        IN  /\ row.argFechaReal # Null
            /\ row.argFechaReal > lastPago[i].leido1
            /\ row.argFechaReal <= row.fechaEsperada
            /\ row.fechaReal = Null
            /\ row.estado = "pendiente"

\* C3: the stored status of every payment equals the status derived from its
\* stored expected date, its stored actual date and the current time.
C3_EstadoNoDeriva ==
    \A s \in 1..Len(pagos) : \A i \in 1..Len(pagos[s]) :
        pagos[s][i].estado =
            deriveStatus(pagos[s][i].fechaEsperada, pagos[s][i].fechaReal, now)

RECURSIVE sumaSobre(_, _)
\* the sum of the amounts of the payments of ps at the positions in idx
sumaSobre(ps, idx) ==
    IF idx = {} THEN 0
    ELSE LET i == CHOOSE j \in idx : TRUE
         IN  ps[i].monto + sumaSobre(ps, idx \ {i})

tier(debtTotal) ==
    CASE debtTotal = 0                      -> "Al dia"
      [] debtTotal > 0 /\ debtTotal <= 20000 -> "Deuda leve"
      [] debtTotal > 20000                  -> "Deuda grave"

\* what C4 says of the rows f rendered from the members ss and payments pp
filasCorrectas(f, ss, pp) ==
    LET miembros == {i \in 1..Len(ss) : ss[i].planId = f.planId}
    IN  /\ Len(f.rows) = Cardinality(miembros)
        /\ {f.rows[k].id : k \in 1..Len(f.rows)} = miembros
        /\ \A k \in 1..Len(f.rows) :
             LET row == f.rows[k]
                 ps  == pp[row.id]
                 vencidos == {i \in 1..Len(ps) : ps[i].estado = "vencido"}
             IN  /\ row.deudaTotal = sumaSobre(ps, vencidos)
                 /\ row.tipo = tier(row.deudaTotal)
                 /\ row.deudaTotal = 20000 => row.tipo = "Deuda leve"
                 /\ row.deudaTotal = 20001 => row.tipo = "Deuda grave"

\* C4: in a rendered page each member's debtTotal is the sum of the amounts
\* of exactly the member's overdue payments, and the tier is on-time at 0,
\* mild from 1 to 20000 and severe above 20000.
C4_Clasificacion ==
    filas # <<>> => filasCorrectas(filas[1], socios, pagos)

\* C4's case: a rendered row of debt 20001, severe, and one of debt 20000,
\* mild, whose member also has a payment that is not overdue
C4_Witness ==
    /\ filas # <<>>
    /\ \E k \in 1..Len(filas[1].rows) :
          /\ filas[1].rows[k].deudaTotal = 20000
          /\ filas[1].rows[k].tipo = "Deuda leve"
          /\ \E i \in 1..Len(pagos[filas[1].rows[k].id]) :
                /\ pagos[filas[1].rows[k].id][i].estado # "vencido"
                /\ pagos[filas[1].rows[k].id][i].monto > 0

\* C4's other boundary: a rendered row of debt 20001 is severe
C4_WitnessGrave ==
    /\ filas # <<>>
    /\ \E k \in 1..Len(filas[1].rows) :
          /\ filas[1].rows[k].deudaTotal = 20001
          /\ filas[1].rows[k].tipo = "Deuda grave"

\* C5: each getFechaReal call adds one to the counter; it returns its
\* argument when the counter is then odd and the argument minus
\* (counter mod 3) + 1 days when it is even, which is 1, 2 or 3 days; from
\* counter 0 the second call returns its argument minus 3 days and the
\* fourth its argument minus 2 days.
C5_Jitter ==
    /\ paidCounter[1] = Len(lastFecha)
    /\ \A i \in 1..Len(lastFecha) :
         LET c == lastFecha[i]
             offset == (c.arg - c.res) \div TicksPerDay
         IN  /\ c.counter = c.antes + 1
             /\ c.counter = i
             /\ c.counter % 2 = 1 => c.res = c.arg
             /\ c.counter % 2 = 0 =>
                   /\ c.res = c.arg - ((c.counter % 3) + 1) * TicksPerDay
                   /\ offset \in 1..3
             /\ i = 2 => c.res = c.arg - 3 * TicksPerDay
             /\ i = 4 => c.res = c.arg - 2 * TicksPerDay

\* C5's case: four calls made, the second across the turn of the year and
\* the fourth across the end of February
C5_Witness ==
    /\ Len(lastFecha) >= 4
    /\ lastFecha[1].res = lastFecha[1].arg
    /\ lastFecha[2].arg = d(2025, 1, 1) /\ lastFecha[2].res = d(2024, 12, 29)
    /\ lastFecha[3].res = lastFecha[3].arg
    /\ lastFecha[4].arg = d(2024, 3, 2) /\ lastFecha[4].res = d(2024, 2, 29)

RECURSIVE diasPedidos(_, _)
\* the sum of dias over the logged calls for member s
diasPedidos(log, s) ==
    IF log = <<>> THEN 0
    ELSE (IF Head(log).socioId = s THEN Head(log).dias ELSE 0) + diasPedidos(Tail(log), s)

\* C6: an asistenciasConRutina call for N days creates exactly N rows, all
\* of that member and routine, dated the reference day and the N - 1 days
\* before it, one per calendar day and none repeated; 7 days ending
\* 2025-01-10 gives 2025-01-04 to 2025-01-10.
C6_Racha ==
    /\ \A s \in 1..Len(asistencias) : Len(asistencias[s]) = diasPedidos(lastAsist, s)
    /\ \A i \in 1..Len(lastAsist) :
         LET c == lastAsist[i]
             rows == asistencias[c.socioId]
         IN  /\ Len(rows) >= c.antes + c.dias
             /\ \A j \in 1..c.dias :
                  /\ rows[c.antes + j].socioId = c.socioId
                  /\ rows[c.antes + j].rutinaId = c.rutinaId
                  /\ rows[c.antes + j].fecha = c.hoy - (j - 1) * TicksPerDay
                  /\ Day(rows[c.antes + j].fecha) = Day(c.hoy) - (j - 1)
             /\ \A j, k \in 1..c.dias :
                  j # k => Day(rows[c.antes + j].fecha) # Day(rows[c.antes + k].fecha)
             /\ (c.hoy = d(2025, 1, 10) /\ c.dias = 7) =>
                  {rows[c.antes + j].fecha : j \in 1..7}
                      = {d(2025, 1, dd) : dd \in 4..10}

\* C6's case: 7 days ending 2025-01-10, and a run across the turn of the year
C6_Witness ==
    \E i \in 1..Len(lastAsist) :
        /\ lastAsist[i].hoy = d(2025, 1, 10)
        /\ lastAsist[i].dias = 7
        /\ asistencias[lastAsist[i].socioId][lastAsist[i].antes + 7].fecha = d(2025, 1, 4)


tipoDePlan(ps, ss, id) == ps[ss[id].planId].tipo

vencidosDe(pp, id) == {i \in 1..Len(pp[id]) : pp[id][i].estado = "vencido"}

\* what C7 says of the rows f rendered from plans ps, members ss, payments pp
filasPorPlan(f, ps, ss, pp) ==
    \A k \in 1..Len(f.rows) :
        LET row == f.rows[k]
            tipo == tipoDePlan(ps, ss, row.id)
            n == Cardinality(vencidosDe(pp, row.id))
        IN  /\ \A i \in 1..Len(pp[row.id]) :
                 pp[row.id][i].monto =
                     (CASE tipo = "Mensual" -> 20000
                        [] tipo = "Trimestral" -> 52000
                        [] tipo = "Anual" -> 220000)
            /\ (tipo \in {"Trimestral", "Anual"} /\ n >= 1) => row.tipo = "Deuda grave"
            /\ tipo \in {"Trimestral", "Anual"} => row.tipo # "Deuda leve"
            /\ row.tipo = "Deuda leve" => (tipo = "Mensual" /\ n = 1)

\* C7: in the seeded data every installment is 20000, 52000 or 220000 by
\* the member's plan, and in a rendered page a quarterly or annual member
\* with an overdue payment is severe and never mild; a mild member is a
\* monthly member with exactly one overdue installment.
C7_SoloMensualLeve ==
    filas # <<>> => filasPorPlan(filas[1], plans, socios, pagos)

\* C7's case: a quarterly member with a single overdue installment, severe
C7_Witness ==
    /\ filas # <<>>
    /\ \E k \in 1..Len(filas[1].rows) :
          /\ tipoDePlan(plans, socios, filas[1].rows[k].id) = "Trimestral"
          /\ Cardinality(vencidosDe(pagos, filas[1].rows[k].id)) = 1
          /\ filas[1].rows[k].deudaTotal = 52000
          /\ filas[1].rows[k].tipo = "Deuda grave"

\* C7's other case: a monthly member with one overdue installment, mild
C7_WitnessLeve ==
    /\ filas # <<>>
    /\ \E k \in 1..Len(filas[1].rows) :
          /\ tipoDePlan(plans, socios, filas[1].rows[k].id) = "Mensual"
          /\ filas[1].rows[k].tipo = "Deuda leve"

planesDeTipo(ps, tipo) == {i \in 1..Len(ps) : ps[i].tipo = tipo}

Tipos == {PlanArgs[k].tipo : k \in 1..Len(PlanArgs)}

\* C8: with runs that do not overlap, no step changes or removes a Plan,
\* a Plan is added only when none of its type exists, at most one Plan of
\* each type exists, and a lookup that finds a Plan hands that Plan, as it
\* is, to main().
C8_PlanUnaVez ==
    [][/\ \A i \in 1..Len(plans) : Len(plans') >= i /\ plans'[i] = plans[i]
       /\ \A i \in (Len(plans) + 1)..Len(plans') : planesDeTipo(plans, plans'[i].tipo) = {}
       /\ \A t \in Tipos : Cardinality(planesDeTipo(plans', t)) <= 1
       /\ \A r \in Runs :
            (pc[r] = "find" /\ loc'[r].k # loc[r].k) =>
                /\ plans' = plans
                /\ loc'[r].planIds[loc[r].k] \in planesDeTipo(plans, PlanArgs[loc[r].k].tipo)]_vars

\* C8's case: a second run has finished after the first, finding the three
\* Plans the first created
C8_Witness ==
    /\ MaxRuns >= 2
    /\ pc[1] = "done" /\ pc[2] = "done"
    /\ Len(plans) = 3
    /\ loc[2].planIds = loc[1].planIds
    /\ \A k \in 1..3 : plans[k] = [id |-> k, tipo |-> PlanArgs[k].tipo,
                                   costo |-> PlanArgs[k].costo, estado |-> "activo"]

sociosDe(r) ==
    {loc[r].socioIds[i] : i \in 1..Len(loc[r].socioIds)}
        \cup {loc[r].extraIds[i] : i \in 1..Len(loc[r].extraIds)}

\* C9: every Attendance is of an active member with a routine and carries
\* that member's routine; once a run of main() has finished, each of its
\* members that is inactive or has no routine has no Attendance and each
\* active member with a routine has at least 7.
C9_AsistenciasSoloActivos ==
    /\ \A s \in 1..Len(asistencias) : \A i \in 1..Len(asistencias[s]) :
          /\ asistencias[s][i].socioId = s
          /\ socios[s].estado = "activo"
          /\ socios[s].rutinaId \in 1..Len(rutinas)
          /\ asistencias[s][i].rutinaId = socios[s].rutinaId
    /\ \A r \in Runs : pc[r] = "done" =>
          /\ Cardinality(sociosDe(r)) = Len(SociosData) + Len(ExtraSociosData)
          /\ \A s \in sociosDe(r) :
                IF socios[s].estado = "activo" /\ socios[s].rutinaId \in 1..Len(rutinas)
                THEN Len(asistencias[s]) >= 7
                ELSE Len(asistencias[s]) = 0

\* C9's case: a finished run with an inactive member that has a routine and
\* no Attendance, and an active one with more than 7
C9_Witness ==
    \E r \in Runs :
        /\ pc[r] = "done"
        /\ \E s \in sociosDe(r) :
              /\ socios[s].estado = "inactivo"
              /\ socios[s].rutinaId \in 1..Len(rutinas)
              /\ asistencias[s] = <<>>
        /\ \E s \in sociosDe(r) :
              /\ socios[s].estado = "activo"
              /\ Len(asistencias[s]) > 7

\* C10: two Plans of one type exist only after two runs of main() have been
\* under way at once, and never more Plans of a type than runs started;
\* runs one after the other leave at most one Plan of each type.
C10_DuplicadoSoloSiSolapan ==
    \A t \in Tipos :
        /\ Cardinality(planesDeTipo(plans, t)) >= 2 => solapadas
        /\ Cardinality(planesDeTipo(plans, t)) <= Cardinality({r \in Runs : pc[r] # "idle"})

\* C10's case: two runs overlapped and two Plans of one type exist, the
\* second created by a run whose lookup had found none
C10_Witness ==
    /\ solapadas
    /\ \E t \in Tipos : Cardinality(planesDeTipo(plans, t)) = 2

\* C11: in runs of main(), each starting with counter 0, every payment
\* created with a simulated settlement was given by getFechaReal an actual
\* date not later than its expected date, the payment of line 161 included
\* (three days before 2 July 2024 for the expected 1 July 2024); such a
\* payment whose actual date is not after the time of the run is stored
\* with that date and as paid, never as overdue.
C11_JitterNoVence ==
    /\ \A s \in 1..Len(pagos) : \A i \in 1..Len(pagos[s]) :
          LET row == pagos[s][i]
          IN  row.argFechaReal # Null =>
                 /\ row.argFechaReal <= row.fechaEsperada
                 /\ row.fechaReal # Null =>
                       row.fechaReal = row.argFechaReal /\ row.estado = "pagado"
                 /\ row.argFechaReal <= limite - MaxSeedTicks => row.fechaReal # Null
    /\ \A r \in Runs :
          (loc[r].socioIds # <<>> /\ pagos[loc[r].socioIds[4]] # <<>>) =>
              LET row == pagos[loc[r].socioIds[4]][1]
              IN  /\ row.fechaEsperada = d(2024, 7, 1)
                  /\ row.argFechaReal = d(2024, 6, 29)

\* C11's case: a run after 1 July 2024 has stored the payment of line 161 as
\* paid on 29 June 2024, and a payment of an extra member as paid before
\* its expected date
C11_Witness ==
    \E r \in Runs :
        /\ loc[r].socioIds # <<>> /\ loc[r].extraIds # <<>>
        /\ pagos[loc[r].socioIds[4]] # <<>>
        /\ pagos[loc[r].socioIds[4]][1].fechaReal = d(2024, 6, 29)
        /\ pagos[loc[r].socioIds[4]][1].estado = "pagado"
        /\ \E k \in 1..Len(loc[r].extraIds) :
              LET ps == pagos[loc[r].extraIds[k]]
              IN  \E i \in 1..Len(ps) :
                     /\ ps[i].fechaReal # Null
                     /\ ps[i].fechaReal < ps[i].fechaEsperada
                     /\ ps[i].estado = "pagado"

\* The actual date the specification's deriveStatus counts at time ahora,
\* section 4.1: a date after ahora is treated as absent
validActual(actual, ahora) ==
    IF actual # Null /\ actual <= ahora THEN actual ELSE Null

\* C12: the actual date and the status crearPago stores are those of the
\* single-time deriveStatus(expected, actual, t) at one time t from the
\* first read of the clock to the second.
C12_UnSoloInstante ==
    \A i \in 1..Len(lastPago) :
        LET c   == lastPago[i]
            row == Last(pagos[c.socioId])
        IN  \E t \in c.leido1..c.leido2 :
               /\ row.fechaReal = validActual(row.argFechaReal, t)
               /\ row.estado = deriveStatus(row.fechaEsperada, row.argFechaReal, t)

====
